---- MODULE Spec2Model ----
(***************************************************************************)
(* Model of src/bug_report.rs: create() and the probes it is built from.   *)
(* A Rust String is modelled as a sequence of one-character strings, so    *)
(* that trimming, joining, formatting and URL-encoding are computed        *)
(* character by character as the code computes them.                       *)
(***************************************************************************)
EXTENDS Naturals, Sequences, FiniteSets

VARIABLES
    pc,              \* position in create(), or the function being applied
    windows,         \* cfg!(windows) of the build
    env,             \* process environment: variable name -> value
    home,            \* what dirs::home_dir() yields
    files,           \* the readable files: a set of [path, content]
    cmd_output,      \* what exec_cmd(shell, ["--version"]) yields
    starship_version,\* crate_version!()
    os_name,         \* Display of os_info::get().os_type()
    os_version,      \* Display of os_info::get().version()
    shell_arg,       \* the argument of a direct call of get_config_path
    shell_info,      \* ShellInfo built by get_shell_info
    terminal_info,   \* TerminalInfo built by get_terminal_info
    starship_config, \* String built by get_starship_config
    config_path,     \* Option<PathBuf> returned by get_config_path
    link,            \* the issue link
    env_info,        \* the formatted report
    copy_success,    \* create()'s copy_success
    clipboard,       \* contents of the OS clipboard
    stdout,          \* what has been printed, in order
    ops              \* external operations performed, in order

vars == <<pc, windows, env, home, files, cmd_output, starship_version, os_name,
          os_version, shell_arg, shell_info, terminal_info, starship_config,
          config_path, link, env_info, copy_success, clipboard, stdout, ops>>

\* Length bound of the file contents enumerated as inputs.
MaxLen == 2

----------------------------------------------------------------------------
\* The grave accent (U+0060), a character a TLA+ string cannot hold.
Backtick == "U+0060"

\* String constants of the source.
GIT_IO_BASE_URL ==
    <<"h","t","t","p","s",":","/","/","g","i","t",".","i","o","/">>
UNKNOWN_SHELL ==
    <<"<","u","n","k","n","o","w","n"," ","s","h","e","l","l",">">>
UNKNOWN_TERMINAL ==
    <<"<","u","n","k","n","o","w","n"," ","t","e","r","m","i","n","a","l",">">>
UNKNOWN_VERSION ==
    <<"<","u","n","k","n","o","w","n"," ","v","e","r","s","i","o","n",">">>
UNKNOWN_CONFIG ==
    <<"<","u","n","k","n","o","w","n"," ","c","o","n","f","i","g",">">>

\* The body template of the issue (the format! literal of get_github_issue_link).
IssueBody ==
    <<"#","#","#","#"," ","C","u","r","r","e","n","t"," ","B","e","h","a","v","i","o","r",
      "\n","<","!","-","-"," ","A"," ","c","l","e","a","r"," ","a","n","d"," ","c","o","n",
      "c","i","s","e"," ","d","e","s","c","r","i","p","t","i","o","n"," ","o","f"," ","t","h",
      "e"," ","b","e","h","a","v","i","o","r","."," ","-","-",">","\n","\n","#","#","#","#",
      " ","E","x","p","e","c","t","e","d"," ","B","e","h","a","v","i","o","r","\n","<","!",
      "-","-"," ","A"," ","c","l","e","a","r"," ","a","n","d"," ","c","o","n","c","i","s","e",
      " ","d","e","s","c","r","i","p","t","i","o","n"," ","o","f"," ","w","h","a","t"," ","y",
      "o","u"," ","e","x","p","e","c","t","e","d"," ","t","o"," ","h","a","p","p","e","n",".",
      " ","-","-",">","\n","\n","#","#","#","#"," ","A","d","d","i","t","i","o","n","a","l",
      " ","c","o","n","t","e","x","t","/","S","c","r","e","e","n","s","h","o","t","s","\n",
      "<","!","-","-"," ","A","d","d"," ","a","n","y"," ","o","t","h","e","r"," ","c","o","n",
      "t","e","x","t"," ","a","b","o","u","t"," ","t","h","e"," ","p","r","o","b","l","e","m",
      " ","h","e","r","e","."," ","I","f"," ","a","p","p","l","i","c","a","b","l","e",","," ",
      "a","d","d"," ","s","c","r","e","e","n","s","h","o","t","s"," ","t","o"," ","h","e","l",
      "p"," ","e","x","p","l","a","i","n","."," ","-","-",">","\n","\n","#","#","#","#"," ",
      "P","o","s","s","i","b","l","e"," ","S","o","l","u","t","i","o","n","\n","<","!","-",
      "-","-"," ","O","n","l","y"," ","i","f"," ","y","o","u"," ","h","a","v","e"," ","s","u",
      "g","g","e","s","t","i","o","n","s"," ","o","n"," ","a"," ","f","i","x"," ","f","o","r",
      " ","t","h","e"," ","b","u","g"," ","-","-",">","\n","\n","#","#","#","#"," ","E","n",
      "v","i","r","o","n","m","e","n","t","\n","<","!","-","-"," ","Y","o","u","r"," ","e",
      "n","v","i","r","o","n","m","e","n","t"," ","i","n","f","o","r","m","a","t","i","o","n",
      " ","h","a","s"," ","b","e","e","n"," ","c","o","p","i","e","d"," ","t","o"," ","t","h",
      "e"," ","c","l","i","p","b","o","a","r","d"," ","a","u","t","o","m","a","t","i","c","a",
      "l","l","y","."," ","P","a","s","t","e"," ","i","t"," ","h","e","r","e","."," ","-","-",
      ">","\n">>

IssueLinkPrefix ==
    <<"h","t","t","p","s",":","/","/","g","i","t","h","u","b",".","c","o","m","/","s","t","a",
      "r","s","h","i","p","/","s","t","a","r","s","h","i","p","/","i","s","s","u","e","s","/",
      "n","e","w","?","b","o","d","y","=">>

\* Shell names matched by get_config_path and the relative paths they map to.
Bash ==
    <<"b","a","s","h">>
Fish ==
    <<"f","i","s","h">>
Ion ==
    <<"i","o","n">>
Powershell ==
    <<"p","o","w","e","r","s","h","e","l","l">>
Zsh ==
    <<"z","s","h">>
BashRc ==
    <<".","b","a","s","h","r","c">>
FishConfig ==
    <<".","c","o","n","f","i","g","/","f","i","s","h","/","c","o","n","f","i","g",".","f","i",
      "s","h">>
IonInitrc ==
    <<"~","/",".","c","o","n","f","i","g","/","i","o","n","/","i","n","i","t","r","c">>
PowershellProfileWindows ==
    <<"D","o","c","u","m","e","n","t","s","/","P","o","w","e","r","S","h","e","l","l","/","M",
      "i","c","r","o","s","o","f","t",".","P","o","w","e","r","S","h","e","l","l","_","p","r",
      "o","f","i","l","e",".","p","s","1">>
PowershellProfileOther ==
    <<".","c","o","n","f","i","g","/","p","o","w","e","r","s","h","e","l","l","/","M","i","c",
      "r","o","s","o","f","t",".","P","o","w","e","r","S","h","e","l","l","_","p","r","o","f",
      "i","l","e",".","p","s","1">>
ZshRc ==
    <<".","z","s","h","r","c">>
StarshipToml ==
    <<".","c","o","n","f","i","g","/","s","t","a","r","s","h","i","p",".","t","o","m","l">>

\* The literal pieces of format_env_info's template, in order.
T_Version ==
    <<"-"," ","S","t","a","r","s","h","i","p"," ","v","e","r","s","i","o","n",":"," ">>
T_Shell ==
    <<"\n","-"," ">>
T_ShellVersion ==
    <<" ","v","e","r","s","i","o","n",":"," ">>
T_Os ==
    <<"\n","-"," ","O","p","e","r","a","t","i","n","g"," ","s","y","s","t","e","m",":"," ">>
T_Space ==
    <<" ">>
T_Terminal ==
    <<"\n","-"," ","T","e","r","m","i","n","a","l"," ","e","m","u","l","a","t","o","r",":",
      " ">>
T_ShellConfig ==
    <<"\n","\n","#","#","#","#"," ","R","e","l","e","v","a","n","t"," ","S","h","e","l","l",
      " ","C","o","n","f","i","g","u","r","a","t","i","o","n","\n","\n",Backtick,Backtick,Backtick,"b","a",
      "s","h","\n">>
T_StarshipConfig ==
    <<"\n",Backtick,Backtick,Backtick,"\n","\n","#","#","#","#"," ","S","t","a","r","s","h","i","p"," ","C",
      "o","n","f","i","g","u","r","a","t","i","o","n","\n","\n",Backtick,Backtick,Backtick,"t","o","m","l",
      "\n">>
T_End ==
    <<"\n",Backtick,Backtick,Backtick>>

\* The messages create() prints.
BrowserMsg ==
    "Take a look at your browser. A GitHub issue has been created and your environment info has been copied to your clipboard."
LinkMsg ==
    "Your environment info has been copied to your clipboard. Click this link to create a GitHub issue:\n\n  {}"
ReportMsg ==
    "\n\nYour clipboard was unavailable, so here's the summary of your environment:\n\n{}"

----------------------------------------------------------------------------
\* Option<T> and Result<T, E> (the code never looks at the error).
Some(v) == [some |-> TRUE, val |-> v]
None == [some |-> FALSE, val |-> << >>]

\* Values of an environment variable.
EnvSet(v) == [kind |-> "set", val |-> v]
EnvUnset == [kind |-> "unset", val |-> << >>]
EnvNotUnicode == [kind |-> "not_unicode", val |-> << >>]

\* std::env::var(name): Ok only for a variable that is set to valid Unicode.
EnvVar(name) == IF env[name].kind = "set" THEN Some(env[name].val) ELSE None

\* Result::or_else / Option::or_else and unwrap_or_else.
OrElse(first, second) == IF first.some THEN first ELSE second
UnwrapOr(r, default) == IF r.some THEN r.val ELSE default

\* fs::read_to_string(path).ok()
ReadToString(path) ==
    IF \E f \in files : f.path = path
    THEN Some((CHOOSE f \in files : f.path = path).content)
    ELSE None

\* str::trim(): strips leading and trailing whitespace.
IsWhitespace(c) == c \in {" ", "\n", "\t", "\r"}

RECURSIVE TrimStart(_)
TrimStart(s) ==
    IF s # << >> /\ IsWhitespace(Head(s)) THEN TrimStart(Tail(s)) ELSE s

RECURSIVE TrimEnd(_)
TrimEnd(s) ==
    IF s # << >> /\ IsWhitespace(s[Len(s)])
    THEN TrimEnd(SubSeq(s, 1, Len(s) - 1))
    ELSE s

Trim(s) == TrimEnd(TrimStart(s))

\* PathBuf::join(path): an absolute path replaces the base; otherwise a
\* separator is added unless the base already ends with one.
MainSeparator == IF windows THEN "\\" ELSE "/"
IsSeparator(c) == c = "/" \/ (windows /\ c = "\\")
HasRoot(path) == path # << >> /\ IsSeparator(path[1])

Join(base, path) ==
    IF HasRoot(path) THEN path
    ELSE IF base = << >> \/ IsSeparator(base[Len(base)]) THEN base \o path
    ELSE base \o <<MainSeparator>> \o path

----------------------------------------------------------------------------
\* get_config_path(shell)
ShellConfigFile(shell) ==
    CASE shell = Bash -> Some(BashRc)
      [] shell = Fish -> Some(FishConfig)
      [] shell = Ion -> Some(IonInitrc)
      [] shell = Powershell ->
            IF windows THEN Some(PowershellProfileWindows)
            ELSE Some(PowershellProfileOther)
      [] shell = Zsh -> Some(ZshRc)
      [] OTHER -> None

get_config_path(shell) ==
    IF ~home.some THEN None
    ELSE LET rel == ShellConfigFile(shell)
         IN  IF rel.some THEN Some(Join(home.val, rel.val)) ELSE None

\* A variant of get_shell_info: no early return, an unset variable only
\* replaces the name by the sentinel.
get_shell_info_NoEarlyReturn ==
    LET var == EnvVar("STARSHIP_SHELL")
        shell == Some(UnwrapOr(var, UNKNOWN_SHELL))
        version == IF cmd_output.some THEN Trim(cmd_output.val) ELSE UNKNOWN_VERSION
        path == get_config_path(shell.val)
        read == IF path.some THEN ReadToString(path.val) ELSE None
        config == IF read.some THEN Trim(read.val) ELSE UNKNOWN_CONFIG
    IN  [ret |-> [name |-> shell.val, version |-> version, config |-> config],
         ops |-> <<[op |-> "exec_cmd", arg |-> shell.val, result |-> cmd_output]>> \o
                 (IF path.some
                  THEN <<[op |-> "read_to_string", arg |-> path.val, result |-> read]>>
                  ELSE << >>)]

\* get_shell_info(): the ShellInfo returned (ret) and the external operations
\* performed on the way (ops).
get_shell_info ==
    LET shell == EnvVar("STARSHIP_SHELL") IN
    IF ~shell.some
    THEN [ret |-> [name |-> UNKNOWN_SHELL, version |-> UNKNOWN_VERSION,
                   config |-> UNKNOWN_CONFIG],
          ops |-> << >>]
    ELSE LET version == IF cmd_output.some THEN Trim(cmd_output.val)
                        ELSE UNKNOWN_VERSION
             path == get_config_path(shell.val)
             read == IF path.some THEN ReadToString(path.val) ELSE None
             config == IF read.some THEN Trim(read.val) ELSE UNKNOWN_CONFIG
         IN  [ret |-> [name |-> shell.val, version |-> version, config |-> config],
              ops |-> <<[op |-> "exec_cmd", arg |-> shell.val, result |-> cmd_output]>> \o
                      (IF path.some
                       THEN <<[op |-> "read_to_string", arg |-> path.val, result |-> read]>>
                       ELSE << >>)]

\* A variant of get_terminal_info: the two variables of each pair swapped.
get_terminal_info_LcFirst ==
    [name |-> UnwrapOr(OrElse(EnvVar("LC_TERMINAL"), EnvVar("TERM_PROGRAM")),
                       UNKNOWN_TERMINAL),
     version |-> UnwrapOr(OrElse(EnvVar("LC_TERMINAL_VERSION"),
                                 EnvVar("TERM_PROGRAM_VERSION")),
                          UNKNOWN_VERSION)]

\* get_terminal_info()
get_terminal_info ==
    [name |-> UnwrapOr(OrElse(EnvVar("TERM_PROGRAM"), EnvVar("LC_TERMINAL")),
                       UNKNOWN_TERMINAL),
     version |-> UnwrapOr(OrElse(EnvVar("TERM_PROGRAM_VERSION"),
                                 EnvVar("LC_TERMINAL_VERSION")),
                          UNKNOWN_VERSION)]

\* A variant of get_starship_config: the text trimmed as the shell's is.
get_starship_config_Trimmed ==
    IF ~home.some THEN [ret |-> UNKNOWN_CONFIG, ops |-> << >>]
    ELSE LET path == Join(home.val, StarshipToml)
             read == ReadToString(path)
         IN  [ret |-> IF read.some THEN Trim(read.val) ELSE UNKNOWN_CONFIG,
              ops |-> <<[op |-> "read_to_string", arg |-> path, result |-> read]>>]

\* get_starship_config(): the String returned (ret) and the reads performed (ops).
get_starship_config ==
    IF ~home.some THEN [ret |-> UNKNOWN_CONFIG, ops |-> << >>]
    ELSE LET path == Join(home.val, StarshipToml)
             read == ReadToString(path)
         IN  [ret |-> UnwrapOr(read, UNKNOWN_CONFIG),
              ops |-> <<[op |-> "read_to_string", arg |-> path, result |-> read]>>]

\* A variant of format_env_info: the two configuration texts swapped.
format_env_info_ConfigsSwapped(version, environment) ==
    T_Version \o version \o
    T_Shell \o environment.shell_info.name \o
    T_ShellVersion \o environment.shell_info.version \o
    T_Os \o environment.os_type \o T_Space \o environment.os_version \o
    T_Terminal \o environment.terminal_info.name \o T_Space \o
    environment.terminal_info.version \o
    T_ShellConfig \o environment.starship_config \o
    T_StarshipConfig \o environment.shell_info.config \o
    T_End

\* format_env_info(starship_version, environment)
format_env_info(version, environment) ==
    T_Version \o version \o
    T_Shell \o environment.shell_info.name \o
    T_ShellVersion \o environment.shell_info.version \o
    T_Os \o environment.os_type \o T_Space \o environment.os_version \o
    T_Terminal \o environment.terminal_info.name \o T_Space \o
    environment.terminal_info.version \o
    T_ShellConfig \o environment.shell_info.config \o
    T_StarshipConfig \o environment.starship_config \o
    T_End

\* urlencoding::encode: bytes in A-Z a-z 0-9 - _ . ~ are kept, every other
\* byte becomes % followed by its two upper-case hexadecimal digits.
Unreserved ==
    {"A","B","C","D","E","F","G","H","I","J","K","L","M","N","O","P","Q","R","S","T","U",
     "V","W","X","Y","Z","a","b","c","d","e","f","g","h","i","j","k","l","m","n","o","p",
     "q","r","s","t","u","v","w","x","y","z","0","1","2","3","4","5","6","7","8","9",
     "-","_",".","~"}

HexOfByte(c) ==
    CASE c = "\t" -> <<"0","9">> [] c = "\n" -> <<"0","A">> [] c = "\r" -> <<"0","D">>
      [] c = " " -> <<"2","0">> [] c = "!" -> <<"2","1">> [] c = "\"" -> <<"2","2">>
      [] c = "#" -> <<"2","3">> [] c = "$" -> <<"2","4">> [] c = "%" -> <<"2","5">>
      [] c = "&" -> <<"2","6">> [] c = "'" -> <<"2","7">> [] c = "(" -> <<"2","8">>
      [] c = ")" -> <<"2","9">> [] c = "*" -> <<"2","A">> [] c = "+" -> <<"2","B">>
      [] c = "," -> <<"2","C">> [] c = "/" -> <<"2","F">> [] c = ":" -> <<"3","A">>
      [] c = ";" -> <<"3","B">> [] c = "<" -> <<"3","C">> [] c = "=" -> <<"3","D">>
      [] c = ">" -> <<"3","E">> [] c = "?" -> <<"3","F">> [] c = "@" -> <<"4","0">>
      [] c = "[" -> <<"5","B">> [] c = "\\" -> <<"5","C">> [] c = "]" -> <<"5","D">>
      [] c = "^" -> <<"5","E">> [] c = Backtick -> <<"6","0">> [] c = "{" -> <<"7","B">>
      [] c = "|" -> <<"7","C">> [] c = "}" -> <<"7","D">>

EncodeByte(c) == IF c \in Unreserved THEN <<c>> ELSE <<"%">> \o HexOfByte(c)

RECURSIVE EncodeRange(_, _, _)
EncodeRange(s, lo, hi) ==
    IF lo > hi THEN << >>
    ELSE IF lo = hi THEN EncodeByte(s[lo])
    ELSE LET mid == (lo + hi) \div 2
         IN  EncodeRange(s, lo, mid) \o EncodeRange(s, mid + 1, hi)

UrlEncode(s) == EncodeRange(s, 1, Len(s))

\* str::replace(from, to): the text between the matches is copied and each
\* match, found leftmost first and not overlapping the one before, becomes `to'.
MatchesAt(s, i, from) ==
    /\ i + Len(from) - 1 <= Len(s)
    /\ SubSeq(s, i, i + Len(from) - 1) = from

\* The first match at or after position i, or 0.
NextMatch(s, i, from) ==
    LET found == {j \in i..Len(s) : MatchesAt(s, j, from)}
    IN  IF found = {} THEN 0 ELSE CHOOSE j \in found : \A k \in found : j <= k

RECURSIVE ReplaceFrom(_, _, _, _)
ReplaceFrom(s, i, from, to) ==
    LET j == NextMatch(s, i, from)
    IN  IF j = 0 THEN SubSeq(s, i, Len(s))
        ELSE SubSeq(s, i, j - 1) \o to \o ReplaceFrom(s, j + Len(from), from, to)

Replace(s, from, to) == ReplaceFrom(s, 1, from, to)

\* A variant of get_github_issue_link: the .replace("%20", "+") left out.
get_github_issue_link_NoReplace ==
    IssueLinkPrefix \o UrlEncode(IssueBody)

\* get_github_issue_link()
get_github_issue_link ==
    IssueLinkPrefix \o Replace(UrlEncode(IssueBody), <<"%","2","0">>, <<"+">>)

----------------------------------------------------------------------------
\* Inputs: what the platform, the environment and the file system may hold.
Tcsh ==
    <<"t","c","s","h">>
UpperBash ==
    <<"B","a","s","h">>
LinuxName ==
    <<"L","i","n","u","x">>
LinuxVersion ==
    <<"1",".","2",".","3">>
WindowsName ==
    <<"W","i","n","d","o","w","s">>
WindowsVersion ==
    <<"1","0",".","0",".","1","9","0","4","1">>
CrateVersion ==
    <<"0",".","1",".","2">>
UnixHome ==
    <<"/","t","e","s","t","/","h","o","m","e">>
RootHome ==
    <<"/">>
WindowsHome ==
    <<"C",":","\\","U","s","e","r","s","\\","u">>
ITerm ==
    <<"i","T","e","r","m",".","a","p","p">>
ITermVersion ==
    <<"3",".","3",".","6">>
Tmux ==
    <<"t","m","u","x">>
TmuxVersion ==
    <<"2",".","9">>
BashVersionOutput ==
    <<" ","5",".","0",".","1","7","\n">>
TomlText ==
    <<"a"," ","="," ","1","\n">>
RcText ==
    <<"\n","x"," ","\n">>
FenceText ==
    <<Backtick,Backtick,Backtick>>
OldClipboard ==
    <<"o","l","d">>
Slug ==
    <<"x","Y","z">>
\* The inputs of test_format_env_info.
TestShell ==
    <<"t","e","s","t","_","s","h","e","l","l">>
TestShellVersion ==
    <<"2",".","3",".","4">>
TestShellConfig ==
    <<"N","o"," ","c","o","n","f","i","g">>
TestTerminal ==
    <<"t","e","s","t","_","t","e","r","m","i","n","a","l">>
TestTerminalVersion ==
    <<"5",".","6",".","7">>
TestStarshipConfig ==
    <<"N","o"," ","S","t","a","r","s","h","i","p"," ","c","o","n","f","i","g">>
IonInitrcPlain ==
    <<".","c","o","n","f","i","g","/","i","o","n","/","i","n","i","t","r","c">>

\* All strings over an alphabet up to a length.
Strs(alphabet, n) == UNION {[1..k -> alphabet] : k \in 0..n}

\* File contents: every string of blanks and letters up to MaxLen.
Contents == Strs({" ", "x"}, MaxLen)

HomeDirs ==
    {None} \cup (IF windows THEN {Some(WindowsHome)} ELSE {Some(UnixHome), Some(RootHome)})

\* The places a configuration file may be at, under a home directory.
RelativePaths ==
    {BashRc, FishConfig, IonInitrc, IonInitrcPlain, PowershellProfileWindows,
     PowershellProfileOther, ZshRc, StarshipToml}

FileHome == IF home.some THEN home.val ELSE IF windows THEN WindowsHome ELSE UnixHome

File(path, content) == [path |-> path, content |-> content]

\* File systems with at most one readable file.
FileSystems ==
    {{}} \cup {{File(Join(FileHome, rel), c)} : rel \in RelativePaths, c \in Contents}

ShellNames == {Bash, Fish, Ion, Powershell, Zsh, Tcsh, UpperBash, << >>}

EnvValues(strings) == {EnvUnset, EnvNotUnicode} \cup {EnvSet(s) : s \in strings}

MakeEnv(shell, term, lc_term, term_version, lc_term_version) ==
    [STARSHIP_SHELL |-> shell, TERM_PROGRAM |-> term, LC_TERMINAL |-> lc_term,
     TERM_PROGRAM_VERSION |-> term_version, LC_TERMINAL_VERSION |-> lc_term_version]

EmptyEnv == MakeEnv(EnvUnset, EnvUnset, EnvUnset, EnvUnset, EnvUnset)

NoShellInfo == [name |-> << >>, version |-> << >>, config |-> << >>]
NoTerminalInfo == [name |-> << >>, version |-> << >>]

\* Environment { os_type, os_version, shell_info, terminal_info, starship_config }
Environment ==
    [os_type |-> os_name, os_version |-> os_version, shell_info |-> shell_info,
     terminal_info |-> terminal_info, starship_config |-> starship_config]

\* An external operation: what was asked (op, arg) and what came back (result).
Op(name, arg, result) == [op |-> name, arg |-> arg, result |-> result]
Ok == Some(<< >>)
Failed == None
Printed(fmt, arg, newline) == [fmt |-> fmt, arg |-> arg, newline |-> newline]

----------------------------------------------------------------------------
\* The state no function has written yet.
NothingProbed ==
    /\ shell_info = NoShellInfo
    /\ terminal_info = NoTerminalInfo
    /\ starship_config = << >>

NothingProduced ==
    /\ config_path = None
    /\ link = << >>
    /\ env_info = << >>
    /\ copy_success = FALSE
    /\ clipboard = OldClipboard
    /\ stdout = << >>
    /\ ops = << >>

NothingComputed == NothingProbed /\ NothingProduced

Platform ==
    /\ windows \in BOOLEAN
    /\ os_name = (IF windows THEN WindowsName ELSE LinuxName)
    /\ os_version = (IF windows THEN WindowsVersion ELSE LinuxVersion)

\* Environments of a run of create().
RunEnvs ==
    {MakeEnv(s, t[1], t[2], t[3], t[4]) :
        s \in {EnvUnset, EnvSet(Bash), EnvSet(Tcsh)},
        t \in {<<EnvUnset, EnvUnset, EnvUnset, EnvUnset>>,
               <<EnvSet(ITerm), EnvUnset, EnvSet(ITermVersion), EnvUnset>>,
               <<EnvUnset, EnvSet(Tmux), EnvUnset, EnvSet(TmuxVersion)>>}}

RunFileSystems ==
    SUBSET {File(Join(FileHome, BashRc), RcText), File(Join(FileHome, StarshipToml), TomlText)}

Init ==
    /\ pc = "shell_info"
    /\ Platform
    /\ starship_version = CrateVersion
    /\ env \in RunEnvs
    /\ home \in {None, Some(IF windows THEN WindowsHome ELSE UnixHome)}
    /\ files \in RunFileSystems
    /\ cmd_output \in {None, Some(BashVersionOutput)}
    /\ shell_arg = << >>
    /\ NothingComputed

----------------------------------------------------------------------------
\* The calls create() makes, each from one position to the next.

\* shell_info: get_shell_info()
CallGetShellInfo(from, to) ==
    /\ pc = from
    /\ pc' = to
    /\ shell_info' = get_shell_info.ret
    /\ ops' = ops \o get_shell_info.ops
    /\ UNCHANGED <<windows, env, home, files, cmd_output, starship_version, os_name,
                   os_version, shell_arg, terminal_info, starship_config, config_path,
                   link, env_info, copy_success, clipboard, stdout>>

\* terminal_info: get_terminal_info()
CallGetTerminalInfo(from, to) ==
    /\ pc = from
    /\ pc' = to
    /\ terminal_info' = get_terminal_info
    /\ UNCHANGED <<windows, env, home, files, cmd_output, starship_version, os_name,
                   os_version, shell_arg, shell_info, starship_config, config_path,
                   link, env_info, copy_success, clipboard, stdout, ops>>

\* starship_config: get_starship_config()
CallGetStarshipConfig(from, to) ==
    /\ pc = from
    /\ pc' = to
    /\ starship_config' = get_starship_config.ret
    /\ ops' = ops \o get_starship_config.ops
    /\ UNCHANGED <<windows, env, home, files, cmd_output, starship_version, os_name,
                   os_version, shell_arg, shell_info, terminal_info, config_path,
                   link, env_info, copy_success, clipboard, stdout>>

\* let link = get_github_issue_link();
CallGetGithubIssueLink(from, to) ==
    /\ pc = from
    /\ pc' = to
    /\ link' = get_github_issue_link
    /\ UNCHANGED <<windows, env, home, files, cmd_output, starship_version, os_name,
                   os_version, shell_arg, shell_info, terminal_info, starship_config,
                   config_path, env_info, copy_success, clipboard, stdout, ops>>

\* let env_info = format_env_info(crate_version!(), environment);
CallFormatEnvInfo(from, to) ==
    /\ pc = from
    /\ pc' = to
    /\ env_info' = format_env_info(starship_version, Environment)
    /\ UNCHANGED <<windows, env, home, files, cmd_output, starship_version, os_name,
                   os_version, shell_arg, shell_info, terminal_info, starship_config,
                   config_path, link, copy_success, clipboard, stdout, ops>>

\* A variant of CopyToClipboard: .unwrap_or(true), so a failed copy counts as done.
CopyToClipboard_UnwrapOrTrue ==
    /\ pc = "clipboard"
    /\ pc' = "open"
    /\ \/ /\ copy_success' = TRUE
          /\ clipboard' = clipboard
          /\ ops' = ops \o <<Op("clipboard_new", << >>, Failed)>>
       \/ /\ copy_success' = TRUE
          /\ clipboard' = clipboard
          /\ ops' = ops \o <<Op("clipboard_new", << >>, Ok),
                             Op("set_contents", env_info, Failed)>>
       \/ /\ copy_success' = TRUE
          /\ clipboard' = env_info
          /\ ops' = ops \o <<Op("clipboard_new", << >>, Ok),
                             Op("set_contents", env_info, Ok)>>
    /\ UNCHANGED <<windows, env, home, files, cmd_output, starship_version, os_name,
                   os_version, shell_arg, shell_info, terminal_info, starship_config,
                   config_path, link, env_info, stdout>>

\* let copy_success = ClipboardProvider::new().and_then(set_contents)
\*                        .map(|_| true).unwrap_or(false);
CopyToClipboard ==
    /\ pc = "clipboard"
    /\ pc' = "open"
    /\ \/ /\ copy_success' = FALSE              \* no clipboard provider
          /\ clipboard' = clipboard
          /\ ops' = ops \o <<Op("clipboard_new", << >>, Failed)>>
       \/ /\ copy_success' = FALSE              \* set_contents fails
          /\ clipboard' = clipboard
          /\ ops' = ops \o <<Op("clipboard_new", << >>, Ok),
                             Op("set_contents", env_info, Failed)>>
       \/ /\ copy_success' = TRUE
          /\ clipboard' = env_info
          /\ ops' = ops \o <<Op("clipboard_new", << >>, Ok),
                             Op("set_contents", env_info, Ok)>>
    /\ UNCHANGED <<windows, env, home, files, cmd_output, starship_version, os_name,
                   os_version, shell_arg, shell_info, terminal_info, starship_config,
                   config_path, link, env_info, stdout>>

\* A variant of OpenBrowser: a failed open is tried again.
OpenBrowser_Retry ==
    /\ pc = "open"
    /\ \/ /\ pc' = "report"
          /\ stdout' = Append(stdout, Printed(BrowserMsg, << >>, FALSE))
          /\ ops' = ops \o <<Op("open", link, Ok), Op("print_browser_msg", << >>, Ok)>>
       \/ /\ pc' = IF Len(ops) < 12 THEN "open" ELSE "shorten"
          /\ stdout' = stdout
          /\ ops' = ops \o <<Op("open", link, Failed)>>
    /\ UNCHANGED <<windows, env, home, files, cmd_output, starship_version, os_name,
                   os_version, shell_arg, shell_info, terminal_info, starship_config,
                   config_path, link, env_info, copy_success, clipboard>>

\* if open::that(&link).is_ok() { print!(...) } else { ... }
OpenBrowser ==
    /\ pc = "open"
    /\ \/ /\ pc' = "report"
          /\ stdout' = Append(stdout, Printed(BrowserMsg, << >>, FALSE))
          /\ ops' = ops \o <<Op("open", link, Ok), Op("print_browser_msg", << >>, Ok)>>
       \/ /\ pc' = "shorten"
          /\ stdout' = stdout
          /\ ops' = ops \o <<Op("open", link, Failed)>>
    /\ UNCHANGED <<windows, env, home, files, cmd_output, starship_version, os_name,
                   os_version, shell_arg, shell_info, terminal_info, starship_config,
                   config_path, link, env_info, copy_success, clipboard>>

\* A variant of ShortenedLink: .unwrap_or(GIT_IO_BASE_URL), the original link lost.
ShortenedLink_NoFallback(response) ==
    IF response.some THEN GIT_IO_BASE_URL \o response.val ELSE GIT_IO_BASE_URL

\* The link the else branch prints, for each outcome of the POST to git.io.
ShortenedLink(response) ==
    IF response.some THEN GIT_IO_BASE_URL \o response.val ELSE link

\* Response bodies: send() or text() failing is None.
Responses == {None, Some(Slug), Some(<< >>)}

ShortenAndPrintLink ==
    /\ pc = "shorten"
    /\ pc' = "report"
    /\ \E response \in Responses :
          /\ ops' = ops \o <<Op("post", link, response),
                             Op("print_link_msg", ShortenedLink(response), Ok)>>
          /\ stdout' = Append(stdout, Printed(LinkMsg, ShortenedLink(response), TRUE))
    /\ UNCHANGED <<windows, env, home, files, cmd_output, starship_version, os_name,
                   os_version, shell_arg, shell_info, terminal_info, starship_config,
                   config_path, link, env_info, copy_success, clipboard>>

\* A variant of PrintReport: the condition inverted, if copy_success { ... }.
PrintReport_Inverted ==
    /\ pc = "report"
    /\ pc' = "done"
    /\ IF copy_success
       THEN /\ stdout' = Append(stdout, Printed(ReportMsg, env_info, TRUE))
            /\ ops' = Append(ops, Op("print_report", env_info, Ok))
       ELSE UNCHANGED <<stdout, ops>>
    /\ UNCHANGED <<windows, env, home, files, cmd_output, starship_version, os_name,
                   os_version, shell_arg, shell_info, terminal_info, starship_config,
                   config_path, link, env_info, copy_success, clipboard>>

\* if !copy_success { println!(..., env_info) }
PrintReport ==
    /\ pc = "report"
    /\ pc' = "done"
    /\ IF ~copy_success
       THEN /\ stdout' = Append(stdout, Printed(ReportMsg, env_info, TRUE))
            /\ ops' = Append(ops, Op("print_report", env_info, Ok))
       ELSE UNCHANGED <<stdout, ops>>
    /\ UNCHANGED <<windows, env, home, files, cmd_output, starship_version, os_name,
                   os_version, shell_arg, shell_info, terminal_info, starship_config,
                   config_path, link, env_info, copy_success, clipboard>>

Next ==
    \/ CallGetShellInfo("shell_info", "terminal_info")
    \/ CallGetTerminalInfo("terminal_info", "starship_config")
    \/ CallGetStarshipConfig("starship_config", "link")
    \/ CallGetGithubIssueLink("link", "format")
    \/ CallFormatEnvInfo("format", "clipboard")
    \/ CopyToClipboard
    \/ OpenBrowser
    \/ ShortenAndPrintLink
    \/ PrintReport

Spec == Init /\ [][Next]_vars

\* create() is one sequential thread: a step that can be taken is taken.
FairSpec == Spec /\ WF_vars(Next)

----------------------------------------------------------------------------
\* Each function applied on its own, to every input of a bounded set.

\* get_config_path(shell_arg)
CallGetConfigPath(from, to) ==
    /\ pc = from
    /\ pc' = to
    /\ config_path' = get_config_path(shell_arg)
    /\ UNCHANGED <<windows, env, home, files, cmd_output, starship_version, os_name,
                   os_version, shell_arg, shell_info, terminal_info, starship_config,
                   link, env_info, copy_success, clipboard, stdout, ops>>

ShellEnvs ==
    {MakeEnv(s, EnvUnset, EnvUnset, EnvUnset, EnvUnset) : s \in EnvValues(ShellNames)}

TerminalEnvs ==
    {MakeEnv(EnvUnset, t, lt, tv, ltv) :
        t \in EnvValues({<< >>, ITerm}), lt \in EnvValues({<< >>, Tmux}),
        tv \in EnvValues({<< >>, ITermVersion}), ltv \in EnvValues({<< >>, TmuxVersion})}

NoInputs ==
    /\ env = EmptyEnv
    /\ home = None
    /\ files = {}
    /\ cmd_output = None
    /\ shell_arg = << >>
    /\ starship_version = CrateVersion

FnInit ==
    /\ Platform
    /\ \/ /\ pc = "call_get_shell_info"
          /\ env \in ShellEnvs
          /\ home \in HomeDirs
          /\ files \in FileSystems
          /\ cmd_output \in {None, Some(BashVersionOutput), Some(<< >>)}
          /\ shell_arg = << >>
          /\ starship_version = CrateVersion
          /\ NothingComputed
       \/ /\ pc = "call_get_terminal_info"
          /\ env \in TerminalEnvs
          /\ home = None
          /\ files = {}
          /\ cmd_output = None
          /\ shell_arg = << >>
          /\ starship_version = CrateVersion
          /\ NothingComputed
       \/ /\ pc = "call_get_starship_config"
          /\ env = EmptyEnv
          /\ home \in HomeDirs
          /\ files \in FileSystems
          /\ cmd_output = None
          /\ shell_arg = << >>
          /\ starship_version = CrateVersion
          /\ NothingComputed
       \/ /\ pc = "call_get_config_path"
          /\ env = EmptyEnv
          /\ home \in HomeDirs
          /\ files = {}
          /\ cmd_output = None
          /\ shell_arg \in ShellNames
          /\ starship_version = CrateVersion
          /\ NothingComputed
       \/ /\ pc = "call_format_env_info"
          /\ env = EmptyEnv
          /\ home = None
          /\ files = {}
          /\ cmd_output = None
          /\ shell_arg = << >>
          /\ starship_version \in {CrateVersion, << >>}
          /\ shell_info \in [name : {Bash, UNKNOWN_SHELL, TestShell},
                             version : {Trim(BashVersionOutput), UNKNOWN_VERSION,
                                        TestShellVersion},
                             config : {Trim(RcText), FenceText, UNKNOWN_CONFIG,
                                       TestShellConfig}]
          /\ terminal_info \in [name : {ITerm, UNKNOWN_TERMINAL, TestTerminal},
                                version : {ITermVersion, UNKNOWN_VERSION,
                                           TestTerminalVersion}]
          /\ starship_config \in {TomlText, FenceText, << >>, TestStarshipConfig}
          /\ NothingProduced
       \/ /\ pc = "call_get_github_issue_link"
          /\ NoInputs
          /\ NothingComputed

FnNext ==
    \/ CallGetShellInfo("call_get_shell_info", "ret_get_shell_info")
    \/ CallGetTerminalInfo("call_get_terminal_info", "ret_get_terminal_info")
    \/ CallGetStarshipConfig("call_get_starship_config", "ret_get_starship_config")
    \/ CallGetConfigPath("call_get_config_path", "ret_get_config_path")
    \/ CallFormatEnvInfo("call_format_env_info", "ret_format_env_info")
    \/ CallGetGithubIssueLink("call_get_github_issue_link", "ret_get_github_issue_link")

FnSpec == FnInit /\ [][FnNext]_vars

----------------------------------------------------------------------------
\* Properties of a run of create().

OpsNamed(name) == {i \in DOMAIN ops : ops[i].op = name}
OpsFailed(name) == {i \in OpsNamed(name) : ~ops[i].result.some}
PrintedWith(fmt) == {i \in DOMAIN stdout : stdout[i].fmt = fmt}

\* The clipboard copy failed: no provider, or set_contents failed.
CopyFailed == OpsFailed("clipboard_new") # {} \/ OpsFailed("set_contents") # {}
OpenFailed == OpsFailed("open") # {}

\* A message telling that the report is in the clipboard has been printed.
ConfirmationPrinted == PrintedWith(BrowserMsg) # {} \/ PrintedWith(LinkMsg) # {}
\* The report itself has been printed.
ReportPrinted == \E i \in PrintedWith(ReportMsg) : stdout[i].arg = env_info

\* C1: whatever the outcomes of the shell variable, the subprocess, the file
\* reads, the home directory, the clipboard, the browser and the shortener,
\* create() reaches its end, and by then the user has either a confirmation
\* with the report really in the clipboard, or the report itself on stdout.
C1_AlwaysEndsAndDelivers ==
    /\ <>(pc = "done")
    /\ [](pc = "done" =>
            \/ ConfirmationPrinted /\ copy_success /\ clipboard = env_info
            \/ ReportPrinted)

C1_Witness ==
    /\ pc = "done"
    /\ env["STARSHIP_SHELL"].kind = "set"
    /\ ~cmd_output.some
    /\ ~home.some
    /\ CopyFailed
    /\ OpenFailed
    /\ OpsFailed("post") # {}
    /\ ReportPrinted

\* C2: at the end of create() the report has been printed if and only if
\* the clipboard copy failed, whatever the browser and the shortener did;
\* it is printed once, last, and never before the end.
C2_ReportPrintedIffCopyFailed ==
    /\ pc = "done" => (ReportPrinted <=> CopyFailed)
    /\ pc = "done" => (copy_success <=> ~CopyFailed)
    /\ pc # "done" => PrintedWith(ReportMsg) = {}
    /\ Cardinality(PrintedWith(ReportMsg)) <= 1
    /\ \A i \in PrintedWith(ReportMsg) : i = Len(stdout)

C2_Witness ==
    /\ pc = "done"
    /\ OpsFailed("set_contents") # {}
    /\ ~OpenFailed
    /\ ReportPrinted
    /\ PrintedWith(BrowserMsg) # {}

\* C3: the link is shortened if and only if the browser could not be opened;
\* the link printed is then the base URL followed by the slug when the
\* request succeeded and the original issue link when it failed; when the
\* browser opened, no request is made and no link is printed.
C3_ShortenIffOpenFailed ==
    /\ pc \in {"report", "done"} => (OpsNamed("post") # {} <=> OpenFailed)
    /\ OpsNamed("post") # {} => OpenFailed
    /\ \A i \in OpsNamed("post") :
          /\ ops[i].arg = link
          /\ \E k \in PrintedWith(LinkMsg) :
                stdout[k].arg = IF ops[i].result.some
                                THEN GIT_IO_BASE_URL \o ops[i].result.val
                                ELSE link
    /\ Cardinality(PrintedWith(LinkMsg)) = Cardinality(OpsNamed("post"))
    /\ ~OpenFailed => PrintedWith(LinkMsg) = {} /\ OpsNamed("post") = {}

C3_Witness ==
    /\ pc = "done"
    /\ \E i \in OpsNamed("post") : ops[i].result = Some(Slug)
    /\ \E k \in PrintedWith(LinkMsg) : stdout[k].arg = GIT_IO_BASE_URL \o Slug

\* The stage of create() an external operation belongs to.
Stage(name) ==
    CASE name \in {"exec_cmd", "read_to_string"} -> 1
      [] name \in {"clipboard_new", "set_contents"} -> 2
      [] name = "open" -> 3
      [] name = "post" -> 4
      [] name \in {"print_browser_msg", "print_link_msg"} -> 5
      [] name = "print_report" -> 6

\* C10: the external operations of a run happen in a fixed order: probes,
\* then the clipboard copy, then the browser open, then the shortening
\* request, then the printing of the report; nothing is retried: the copy
\* and the open are attempted exactly once and the request at most once.
C10_FixedOrderNoRetries ==
    /\ \A i, j \in DOMAIN ops : i < j => Stage(ops[i].op) <= Stage(ops[j].op)
    /\ OpsNamed("clipboard_new") # {} =>
          pc \in {"open", "shorten", "report", "done"} /\ env_info # << >>
    /\ Cardinality(OpsNamed("clipboard_new")) <= 1
    /\ Cardinality(OpsNamed("set_contents")) <= 1
    /\ Cardinality(OpsNamed("open")) <= 1
    /\ Cardinality(OpsNamed("post")) <= 1
    /\ Cardinality(OpsNamed("exec_cmd")) <= 1
    /\ pc = "done" =>
          /\ Cardinality(OpsNamed("clipboard_new")) = 1
          /\ Cardinality(OpsNamed("open")) = 1

C10_Witness ==
    /\ pc = "done"
    /\ OpsNamed("exec_cmd") # {}
    /\ Cardinality(OpsNamed("read_to_string")) = 2
    /\ OpsNamed("set_contents") # {}
    /\ OpsNamed("post") # {}
    /\ OpsNamed("print_report") # {}

----------------------------------------------------------------------------
\* Properties of the functions, each applied on its own.

SetVar(name) == env[name].kind = "set"

\* C4: get_shell_info with STARSHIP_SHELL unset returns the three sentinels
\* and runs no subprocess and reads no file; with STARSHIP_SHELL set to v
\* the name returned is v, whatever the subprocess and the file read did.
C4_ShellNameFromVariable ==
    pc = "ret_get_shell_info" =>
        /\ env["STARSHIP_SHELL"].kind = "unset" =>
              /\ shell_info = [name |-> UNKNOWN_SHELL, version |-> UNKNOWN_VERSION,
                               config |-> UNKNOWN_CONFIG]
              /\ ops = << >>
        /\ SetVar("STARSHIP_SHELL") => shell_info.name = env["STARSHIP_SHELL"].val

C4_Witness ==
    /\ pc = "ret_get_shell_info"
    /\ env["STARSHIP_SHELL"] = EnvSet(Fish)
    /\ ~cmd_output.some
    /\ shell_info.name = Fish
    /\ shell_info.config = UNKNOWN_CONFIG
    /\ \E i \in DOMAIN ops : ops[i].op = "read_to_string" /\ ~ops[i].result.some

\* The relative path the specification gives for each known shell.
KnownShells == {Bash, Fish, Ion, Powershell, Zsh}
SpecifiedConfigFile(shell) ==
    CASE shell = Bash -> BashRc
      [] shell = Fish -> FishConfig
      [] shell = Ion -> IonInitrcPlain
      [] shell = Powershell ->
            IF windows THEN PowershellProfileWindows ELSE PowershellProfileOther
      [] shell = Zsh -> ZshRc

\* C5: get_config_path returns the home directory joined with the relative
\* path of the shell (bash .bashrc, fish .config/fish/config.fish, ion
\* .config/ion/initrc, powershell its profile, zsh .zshrc), and no path for
\* any other shell name.
C5_ConfigPathIsHomeJoinedWithShellFile ==
    pc = "ret_get_config_path" /\ home.some =>
        config_path = IF shell_arg \in KnownShells
                      THEN Some(Join(home.val, SpecifiedConfigFile(shell_arg)))
                      ELSE None

\* C6 as stated: the terminal name and version are the first non-empty
\* variable of their pair, else the sentinel.
NonEmptyVar(name) == SetVar(name) /\ env[name].val # << >>
FirstNonEmpty(first, second, default) ==
    IF NonEmptyVar(first) THEN env[first].val
    ELSE IF NonEmptyVar(second) THEN env[second].val
    ELSE default

C6_FirstNonEmptyWins ==
    pc = "ret_get_terminal_info" =>
        /\ terminal_info.name =
              FirstNonEmpty("TERM_PROGRAM", "LC_TERMINAL", UNKNOWN_TERMINAL)
        /\ terminal_info.version =
              FirstNonEmpty("TERM_PROGRAM_VERSION", "LC_TERMINAL_VERSION", UNKNOWN_VERSION)

\* C6 amended: the terminal name and version are the first variable of
\* their pair that is set to valid Unicode, empty or not, else the sentinel.
FirstSet(first, second, default) ==
    IF SetVar(first) THEN env[first].val
    ELSE IF SetVar(second) THEN env[second].val
    ELSE default

C6_FirstSetWins ==
    pc = "ret_get_terminal_info" =>
        /\ terminal_info.name = FirstSet("TERM_PROGRAM", "LC_TERMINAL", UNKNOWN_TERMINAL)
        /\ terminal_info.version =
              FirstSet("TERM_PROGRAM_VERSION", "LC_TERMINAL_VERSION", UNKNOWN_VERSION)

C6_Witness ==
    /\ pc = "ret_get_terminal_info"
    /\ env["TERM_PROGRAM"] = EnvSet(<< >>)
    /\ env["LC_TERMINAL"] = EnvSet(Tmux)
    /\ terminal_info.name = << >>
    /\ env["TERM_PROGRAM_VERSION"] = EnvNotUnicode
    /\ terminal_info.version = TmuxVersion

\* The starship.toml files that can be read under the home directory.
StarshipTomlFiles ==
    IF home.some THEN {f \in files : f.path = Join(home.val, StarshipToml)} ELSE {}

\* C7 as stated: the file's contents trimmed, else the sentinel.
C7_ConfigIsTrimmedContents ==
    pc = "ret_get_starship_config" =>
        /\ \A f \in StarshipTomlFiles : starship_config = Trim(f.content)
        /\ StarshipTomlFiles = {} => starship_config = UNKNOWN_CONFIG

\* C7 amended: with the home directory known and .config/starship.toml under
\* it readable, get_starship_config returns the file's contents as they are,
\* not trimmed; in every other case it returns the sentinel.
C7_ConfigIsContentsUntrimmed ==
    pc = "ret_get_starship_config" =>
        /\ \A f \in StarshipTomlFiles : starship_config = f.content
        /\ StarshipTomlFiles = {} => starship_config = UNKNOWN_CONFIG

C7_Witness ==
    /\ pc = "ret_get_starship_config"
    /\ \E f \in StarshipTomlFiles :
          /\ Trim(f.content) # f.content
          /\ starship_config = f.content

\* The text holds the field at the position.
FieldAt(text, pos, field) ==
    /\ pos + Len(field) - 1 <= Len(text)
    /\ SubSeq(text, pos, pos + Len(field) - 1) = field

\* The text holds the field somewhere.
Contains(text, field) == \E pos \in 1..(Len(text) + 1) : FieldAt(text, pos, field)

\* C8: the text format_env_info returns holds the version, the shell name
\* and version, the OS name and version, the terminal name and version, the
\* shell configuration and the tool configuration, each unmodified at its
\* place between the literal pieces of the template, and nothing else.
C8_FieldsAtFixedPlaces ==
    pc = "ret_format_env_info" =>
        LET p1 == 1 + Len(T_Version)
            p2 == p1 + Len(starship_version) + Len(T_Shell)
            p3 == p2 + Len(shell_info.name) + Len(T_ShellVersion)
            p4 == p3 + Len(shell_info.version) + Len(T_Os)
            p5 == p4 + Len(os_name) + Len(T_Space)
            p6 == p5 + Len(os_version) + Len(T_Terminal)
            p7 == p6 + Len(terminal_info.name) + Len(T_Space)
            p8 == p7 + Len(terminal_info.version) + Len(T_ShellConfig)
            p9 == p8 + Len(shell_info.config) + Len(T_StarshipConfig)
        IN  /\ FieldAt(env_info, 1, T_Version)
            /\ FieldAt(env_info, p1, starship_version)
            /\ FieldAt(env_info, p2 - Len(T_Shell), T_Shell)
            /\ FieldAt(env_info, p2, shell_info.name)
            /\ FieldAt(env_info, p3 - Len(T_ShellVersion), T_ShellVersion)
            /\ FieldAt(env_info, p3, shell_info.version)
            /\ FieldAt(env_info, p4 - Len(T_Os), T_Os)
            /\ FieldAt(env_info, p4, os_name)
            /\ FieldAt(env_info, p5, os_version)
            /\ FieldAt(env_info, p6 - Len(T_Terminal), T_Terminal)
            /\ FieldAt(env_info, p6, terminal_info.name)
            /\ FieldAt(env_info, p7, terminal_info.version)
            /\ FieldAt(env_info, p8 - Len(T_ShellConfig), T_ShellConfig)
            /\ FieldAt(env_info, p8, shell_info.config)
            /\ FieldAt(env_info, p9 - Len(T_StarshipConfig), T_StarshipConfig)
            /\ FieldAt(env_info, p9, starship_config)
            /\ FieldAt(env_info, p9 + Len(starship_config), T_End)
            /\ Len(env_info) = p9 + Len(starship_config) + Len(T_End) - 1
            /\ \A field \in {starship_version, shell_info.name, shell_info.version,
                               os_name, os_version, terminal_info.name,
                               terminal_info.version, shell_info.config,
                               starship_config} : Contains(env_info, field)

C8_Witness ==
    /\ pc = "ret_format_env_info"
    /\ starship_version = CrateVersion
    /\ os_name = LinuxName
    /\ os_version = LinuxVersion
    /\ shell_info = [name |-> TestShell, version |-> TestShellVersion,
                     config |-> TestShellConfig]
    /\ terminal_info = [name |-> TestTerminal, version |-> TestTerminalVersion]
    /\ starship_config = TestStarshipConfig
    /\ Contains(env_info, TestShell)
    /\ Contains(env_info, TestStarshipConfig)

\* The body as the link is to carry it: a blank as "+", any other
\* character URL-encoded.
RECURSIVE PlusEncoded(_, _, _)
PlusEncoded(s, lo, hi) ==
    IF lo > hi THEN << >>
    ELSE IF lo = hi THEN (IF s[lo] = " " THEN <<"+">> ELSE EncodeByte(s[lo]))
    ELSE LET mid == (lo + hi) \div 2
         IN  PlusEncoded(s, lo, mid) \o PlusEncoded(s, mid + 1, hi)

\* C9: the link is the issue-tracker prefix followed by the URL-encoded body
\* with every blank of the body as "+"; it holds no "%20" and no blank.
C9_LinkEncodesBlanksAsPlus ==
    pc = "ret_get_github_issue_link" =>
        /\ link = IssueLinkPrefix \o PlusEncoded(IssueBody, 1, Len(IssueBody))
        /\ \A i \in DOMAIN link : link[i] # " "
        /\ \A i \in DOMAIN link : ~MatchesAt(link, i, <<"%", "2", "0">>)

C9_Witness ==
    /\ pc = "ret_get_github_issue_link"
    /\ \E i \in DOMAIN IssueBody : IssueBody[i] = " "
    /\ Cardinality({i \in DOMAIN link : link[i] = "+"})
          = Cardinality({i \in DOMAIN IssueBody : IssueBody[i] = " "})
    /\ Len(link) > Len(IssueLinkPrefix)

====
